---- MODULE Spec2Model ----
(***************************************************************************)
(* aws_okta_keyman/aws.py: the Credentials profile writer and the Session  *)
(* that exchanges a SAML assertion for temporary credentials.              *)
(*                                                                         *)
(* Strings are TLA+ strings.  Python's None is the value None below where  *)
(* a string is expected, and the empty tuple where an object is expected.  *)
(* The credentials file is a sequence of sections in file order, each a    *)
(* name and a sequence of <<key, value>> lines.                            *)
(***************************************************************************)
EXTENDS Integers, Sequences, FiniteSets, TLC

VARIABLES
    assertion,      \* Session.assertion: what SamlAssertion.roles()/encode() give
    profile,        \* Session.profile
    region,         \* Session.region
    role_aliases,   \* Session.role_aliases
    creds,          \* Session.creds
    role,           \* Session.role: <<>> is None, <<r>> is the role r
    sts,            \* the STS endpoint: calls made, last request, last response
    fs,             \* the credentials file: exists, mode, text
    clock,          \* datetime.datetime.utcnow(), in seconds
    pc,             \* position inside the running operation
    op,             \* the operation running or last run, with its arguments
    result,         \* "running", "ok", or the name of the exception raised
    valid,          \* the value the last is_valid returned
    call,           \* the frame of the running / last add_profile call
    snap,           \* the state when the operation started
    written,        \* profile names add_profile has written in this operation
    lastCall,       \* arguments and resulting file of the last completed add_profile
    selected,       \* index given to the last successful set_role, -2 if none
    hadMultiple,    \* MultipleRoles has been raised on this session
    nops            \* operations started so far

vars == <<assertion, profile, region, role_aliases, creds, role, sts, fs, clock,
          pc, op, result, valid, call, snap, written, lastCall, selected,
          hadMultiple, nops>>

----------------------------------------------------------------------------
(* Bounds of the model *)

MaxRoles == 2       \* roles in an assertion
MaxAliases == 2     \* entries of role_aliases
MaxClock == 1       \* seconds the clock advances
MaxOps == 3         \* operations on one session

(* Program constants *)

BufferSeconds == 600    \* is_valid: datetime.timedelta(seconds=600)
OwnerRW == 384          \* 0o600
NewFileMode == 420      \* 0o644: mode of a file open() creates under umask 022

None == "<None>"

----------------------------------------------------------------------------
(* str() of a string-or-None value *)

Str(v) == IF v = None THEN "None" ELSE v

(* Python truthiness of a string-or-None value *)
Truthy(v) == v # None /\ v # ""

----------------------------------------------------------------------------
(* Expiration timestamps.  A datetime is seconds since an epoch, whether    *)
(* it carries microseconds, and its UTC offset as str() prints it ("" for   *)
(* a naive datetime).  NoExpiration is None.                                *)

NoExpiration == [kind |-> "none", secs |-> 0, micro |-> FALSE, tz |-> ""]

Datetime(s, micro, tz) == [kind |-> "datetime", secs |-> s, micro |-> micro, tz |-> tz]

(* str(expiration): the date and time digits, then whatever follows them.   *)
(* str(None) has no digits at all.                                          *)
StrExpiration(e) ==
    IF e.kind = "none"
    THEN [digits |-> -1, rest |-> "None"]
    ELSE [digits |-> e.secs,
          rest |-> (IF e.micro THEN ".000123" ELSE "") \o e.tz]

(* datetime.strptime(s, '%Y-%m-%d %H:%M:%S+00:00'): the digits must be      *)
(* there and be followed by exactly "+00:00", else ValueError.              *)
StrptimeRaises(s) == s.digits < 0 \/ s.rest # "+00:00"

Strptime(s) == s.digits

IsValidLe(c, now) ==
    IF StrptimeRaises(StrExpiration(c.Expiration))
    THEN FALSE
    ELSE (now + BufferSeconds) <= Strptime(StrExpiration(c.Expiration))

(* Session.is_valid *)
IsValid(c, now) ==
    IF StrptimeRaises(StrExpiration(c.Expiration))
    THEN FALSE
    ELSE (now + BufferSeconds) < Strptime(StrExpiration(c.Expiration))

----------------------------------------------------------------------------
(* configparser.ConfigParser(interpolation=None), strict *)

DefaultSect == "DEFAULT"

(* optionxform: keys are lower-cased *)
OptionXForm(k) ==
    CASE k = "Region" -> "region"
      [] k = "Output" -> "output"
      [] OTHER -> k

EmptyConfig == [defaults |-> <<>>, sections |-> <<>>]

XFormOpts(opts) == [i \in 1..Len(opts) |-> <<OptionXForm(opts[i][1]), opts[i][2]>>]

DuplicateKeys(opts) ==
    \E i, j \in 1..Len(opts) : i < j /\ OptionXForm(opts[i][1]) = OptionXForm(opts[j][1])

(* read_file raises DuplicateSectionError / DuplicateOptionError *)
ReadRaises(text) ==
    \/ \E i, j \in 1..Len(text) : i < j /\ text[i].name = text[j].name
    \/ \E i \in 1..Len(text) : DuplicateKeys(text[i].opts)

IsDefault(s) == s.name = DefaultSect
NotDefault(s) == s.name # DefaultSect

ReadFileForgets(text) == EmptyConfig

(* read_file: the DEFAULT section is kept apart from the named sections *)
ReadFile(text) ==
    LET xf == [i \in 1..Len(text) |-> [name |-> text[i].name, opts |-> XFormOpts(text[i].opts)]]
        d == SelectSeq(xf, IsDefault)
    IN  [defaults |-> IF d = <<>> THEN <<>> ELSE d[1].opts,
         sections |-> SelectSeq(xf, NotDefault)]

HasSection(config, name) ==
    \E i \in 1..Len(config.sections) : config.sections[i].name = name

(* add_section raises ValueError for the default section *)
AddSectionRaises(name) == name = DefaultSect

AddSection(config, name) ==
    [config EXCEPT !.sections = Append(@, [name |-> name, opts |-> <<>>])]

HasKey(opts, k) == \E i \in 1..Len(opts) : opts[i][1] = k

SetOptAppend(opts, k, v) == Append(opts, <<OptionXForm(k), v>>)

(* dict assignment: an existing key keeps its place, a new key goes last *)
SetOpt(opts, k, v) ==
    IF HasKey(opts, OptionXForm(k))
    THEN [i \in 1..Len(opts) |->
            IF opts[i][1] = OptionXForm(k) THEN <<opts[i][1], v>> ELSE opts[i]]
    ELSE Append(opts, <<OptionXForm(k), v>>)

RECURSIVE SetAllOpts(_, _)
SetAllOpts(opts, items) ==
    IF items = <<>> THEN opts
    ELSE SetAllOpts(SetOpt(opts, items[1][1], items[1][2]), Tail(items))

(* [config.set(name, k, v) for k, v in profile.items()] *)
SetAll(config, name, items) ==
    [config EXCEPT !.sections =
        [i \in 1..Len(@) |->
            IF @[i].name = name
            THEN [@[i] EXCEPT !.opts = SetAllOpts(@, items)]
            ELSE @[i]]]

(* config.write: DEFAULT first when it has keys, then the sections in order *)
WriteConfig(config) ==
    (IF config.defaults = <<>> THEN <<>>
     ELSE <<[name |-> DefaultSect, opts |-> config.defaults]>>)
    \o config.sections

----------------------------------------------------------------------------
(* The credentials file on disk *)

NoFile == [exists |-> FALSE, mode |-> 0, text |-> <<>>]

(* open(filename, 'w+'): creates or truncates; an existing file keeps its mode *)
OpenTruncate(f) ==
    [exists |-> TRUE,
     mode |-> IF f.exists THEN f.mode ELSE NewFileMode,
     text |-> <<>>]

ChmodSkipped(f, mode) == f

(* os.chmod(filename, mode) *)
Chmod(f, mode) == [f EXCEPT !.mode = mode]

(* config.write(configfile) on the freshly truncated file *)
WriteFile(f, config) == [f EXCEPT !.text = WriteConfig(config)]

----------------------------------------------------------------------------
(* Roles, aliases, credentials *)

ArnPrefix == "arn:aws:iam::"

(* A role ARN is kept as the pieces 'arn:aws:iam::' splits it into *)
RoleA == [role |-> <<"arn:aws:iam::", "111:role/Admin">>,
          principle |-> "arn:aws:iam::111:saml-provider/okta"]
RoleB == [role |-> <<"arn:aws-cn:iam::", "222:role/Dev">>,
          principle |-> "arn:aws-cn:iam::222:saml-provider/okta"]

RolePool == {RoleA, RoleB}

RECURSIVE Join(_)
Join(pieces) == IF pieces = <<>> THEN "" ELSE Head(pieces) \o Join(Tail(pieces))

(* s.replace(old, ''): every occurrence of old is dropped *)
Replace(pieces, old) ==
    LET Keep(p) == p # old IN SelectSeq(pieces, Keep)

RoleName(r) == Join(Replace(r.role, ArnPrefix))

AliasPool ==
    {[role |-> "111:role/Admin", alias |-> "dev"],
     [role |-> "111:role/Admin", alias |-> ""],
     [role |-> "arn:aws-cn:iam::222:role/Dev", alias |-> "default"]}

RECURSIVE AliasLoopFirst(_, _, _)
AliasLoopFirst(aliases, role_name, profile_name) ==
    IF aliases = <<>> THEN profile_name
    ELSE IF role_name = Head(aliases).role THEN Head(aliases).alias
    ELSE AliasLoopFirst(Tail(aliases), role_name, profile_name)

(* for alias in self.role_aliases: if role_name == alias['role']: ...      *)
RECURSIVE AliasLoop(_, _, _)
AliasLoop(aliases, role_name, profile_name) ==
    IF aliases = <<>> THEN profile_name
    ELSE AliasLoop(Tail(aliases), role_name,
                   IF role_name = Head(aliases).role
                   THEN Head(aliases).alias ELSE profile_name)

ProfileNameFirst(r, aliases) ==
    LET pn == AliasLoopFirst(aliases, RoleName(r), None)
    IN  IF ~Truthy(pn) THEN RoleName(r) ELSE pn

(* assume_role, the profile name of the role's own section *)
ProfileName(r, aliases) ==
    LET pn == AliasLoop(aliases, RoleName(r), None)
    IN  IF ~Truthy(pn) THEN RoleName(r) ELSE pn

(* Session.__init__: nothing assumed yet *)
InitCreds == [AccessKeyId |-> None, SecretAccessKey |-> None,
              SessionToken |-> None, Expiration |-> NoExpiration]

Creds(k, e) == [AccessKeyId |-> "AKIA" \o k, SecretAccessKey |-> "secret" \o k,
                SessionToken |-> "token" \o k, Expiration |-> e]

(* Credentials.add_profile: the profile dict, in insertion order *)
ProfileItems(rgn, c) ==
    << <<"output", "json">>,
       <<"region", Str(rgn)>>,
       <<"aws_access_key_id", Str(c.AccessKeyId)>>,
       <<"aws_secret_access_key", Str(c.SecretAccessKey)>>,
       <<"aws_security_token", Str(c.SessionToken)>>,
       <<"aws_session_token", Str(c.SessionToken)>> >>

(* SamlAssertion.roles(): the role list, or xml ParseError *)
RolesRaises(a) == ~a.ok
Roles(a) == a.roles

(* SamlAssertion.encode() *)
Encode(a) == a.encoded

(* list[int(k)]: negative indexes count from the end *)
IndexRaises(l, k) == k >= Len(l) \/ k < -Len(l)

IndexOneBased(l, k) ==
    IF k < 0 THEN l[Len(l) + k + 1] ELSE IF k = 0 THEN l[Len(l)] ELSE l[k]

Index(l, k) == IF k < 0 THEN l[Len(l) + k + 1] ELSE l[k + 1]

NoRequest == [RoleArn |-> "", PrincipalArn |-> "", SAMLAssertion |-> ""]

StsRequestSwapped(r, a) ==
    [RoleArn |-> r.principle, PrincipalArn |-> Join(r.role), SAMLAssertion |-> Encode(a)]

(* sts.assume_role_with_saml(RoleArn=, PrincipalArn=, SAMLAssertion=) *)
StsRequest(r, a) ==
    [RoleArn |-> Join(r.role), PrincipalArn |-> r.principle, SAMLAssertion |-> Encode(a)]

----------------------------------------------------------------------------
(* Bookkeeping of the running operation *)

NoArgs == [name |-> "", region |-> "", creds |-> InitCreds]
NoCall == [args |-> NoArgs, after |-> NoFile]
NoFrame == [name |-> "", items |-> <<>>, config |-> EmptyConfig, fs0 |-> NoFile,
            prev |-> NoCall, ret |-> "done", args |-> NoArgs, done |-> FALSE]
NoOp == [name |-> "none", k |-> 0, wdp |-> FALSE]

Snapshot == [fs |-> fs, creds |-> creds, role |-> role, calls |-> sts.calls,
             clock |-> clock]

SessionUnchanged == UNCHANGED <<assertion, profile, region, role_aliases>>

(* An operation starts: only when none is running and the session has ops left *)
Start(o) ==
    /\ pc = "idle"
    /\ nops < MaxOps
    /\ nops' = nops + 1
    /\ op' = o
    /\ snap' = Snapshot
    /\ written' = <<>>

(* The running operation raises e *)
Raise(e) ==
    /\ pc' = "idle"
    /\ result' = e

----------------------------------------------------------------------------
(* Credentials.add_profile / _add_profile, one step per statement *)

(* add_profile(name, region, creds) is entered; ret is where it returns to *)
EnterAddProfile(name, rgn, c, ret) ==
    /\ call' = [name |-> Str(name), items |-> ProfileItems(rgn, c),
                config |-> EmptyConfig, fs0 |-> fs, prev |-> lastCall,
                ret |-> ret, args |-> [name |-> name, region |-> rgn, creds |-> c],
                done |-> FALSE]
    /\ pc' = "ap_read"

(* config.read_file(open(filename, 'r')); IOError leaves the config empty *)
ApRead ==
    /\ pc = "ap_read"
    /\ IF ~fs.exists
       THEN /\ pc' = "ap_set"
            /\ UNCHANGED <<call, result>>
       ELSE IF ReadRaises(fs.text)
       THEN /\ Raise("ConfigError")
            /\ UNCHANGED call
       ELSE /\ call' = [call EXCEPT !.config = ReadFile(fs.text)]
            /\ pc' = "ap_set"
            /\ UNCHANGED result
    /\ SessionUnchanged
    /\ UNCHANGED <<creds, role, sts, fs, clock, op, valid, snap, written,
                   lastCall, selected, hadMultiple, nops>>

(* if not has_section: add_section; then set every item of the profile *)
ApSet ==
    /\ pc = "ap_set"
    /\ IF ~HasSection(call.config, call.name) /\ AddSectionRaises(call.name)
       THEN /\ Raise("ValueError")
            /\ UNCHANGED call
       ELSE /\ call' = [call EXCEPT !.config =
                          SetAll(IF HasSection(@, call.name) THEN @
                                 ELSE AddSection(@, call.name),
                                 call.name, call.items)]
            /\ pc' = "ap_open"
            /\ UNCHANGED result
    /\ SessionUnchanged
    /\ UNCHANGED <<creds, role, sts, fs, clock, op, valid, snap, written,
                   lastCall, selected, hadMultiple, nops>>

(* with open(filename, 'w+') as configfile: *)
ApOpen ==
    /\ pc = "ap_open"
    /\ fs' = OpenTruncate(fs)
    /\ pc' = "ap_chmod"
    /\ SessionUnchanged
    /\ UNCHANGED <<creds, role, sts, clock, op, result, valid, call, snap,
                   written, lastCall, selected, hadMultiple, nops>>

(* os.chmod(filename, 0o600) *)
ApChmod ==
    /\ pc = "ap_chmod"
    /\ fs' = Chmod(fs, OwnerRW)
    /\ pc' = "ap_write"
    /\ SessionUnchanged
    /\ UNCHANGED <<creds, role, sts, clock, op, result, valid, call, snap,
                   written, lastCall, selected, hadMultiple, nops>>

(* config.write(configfile), the file is closed and add_profile returns *)
ApWrite ==
    /\ pc = "ap_write"
    /\ fs' = WriteFile(fs, call.config)
    /\ call' = [call EXCEPT !.done = TRUE]
    /\ written' = Append(written, call.name)
    /\ lastCall' = [args |-> call.args, after |-> fs']
    /\ IF call.ret = "done"
       THEN pc' = "idle" /\ result' = "ok"
       ELSE pc' = call.ret /\ UNCHANGED result
    /\ SessionUnchanged
    /\ UNCHANGED <<creds, role, sts, clock, op, valid, snap, selected,
                   hadMultiple, nops>>

(* A caller uses the writer directly: Credentials(filename).add_profile(...) *)
AddProfile(name, rgn, c) ==
    /\ Start([name |-> "add_profile", k |-> 0, wdp |-> FALSE])
    /\ result' = "running"
    /\ EnterAddProfile(name, rgn, c, "done")
    /\ SessionUnchanged
    /\ UNCHANGED <<creds, role, sts, fs, clock, valid, lastCall, selected, hadMultiple>>

----------------------------------------------------------------------------
(* Session *)

(* set_role(role_index) *)
SetRole(k) ==
    /\ Start([name |-> "set_role", k |-> k, wdp |-> FALSE])
    /\ pc' = "idle"
    /\ IF RolesRaises(assertion)
       THEN result' = "ParseError" /\ UNCHANGED <<role, selected>>
       ELSE IF IndexRaises(Roles(assertion), k)
       THEN result' = "IndexError" /\ UNCHANGED <<role, selected>>
       ELSE /\ role' = <<Index(Roles(assertion), k)>>
            /\ selected' = k
            /\ result' = "ok"
    /\ SessionUnchanged
    /\ UNCHANGED <<creds, sts, fs, clock, valid, call, lastCall, hadMultiple>>

(* is_valid *)
IsValidCall ==
    /\ Start([name |-> "is_valid", k |-> 0, wdp |-> FALSE])
    /\ pc' = "idle"
    /\ valid' = IsValid(creds, clock)
    /\ result' = "ok"
    /\ SessionUnchanged
    /\ UNCHANGED <<creds, role, sts, fs, clock, call, lastCall, selected, hadMultiple>>

(* time passes between operations *)
Tick ==
    /\ pc = "idle"
    /\ clock < MaxClock
    /\ clock' = clock + 1
    /\ SessionUnchanged
    /\ UNCHANGED <<creds, role, sts, fs, pc, op, result, valid, call, snap,
                   written, lastCall, selected, hadMultiple, nops>>

AssumeRoleFrame ==
    /\ SessionUnchanged
    /\ UNCHANGED <<creds, sts, fs, clock, valid, call, lastCall, selected>>

AssumeRoleSelectedRechecks(wdp) ==
    /\ Start([name |-> "assume_role", k |-> 0, wdp |-> wdp])
    /\ role # <<>>
    /\ IF Len(Roles(assertion)) > 1
       THEN Raise("MultipleRoles")
       ELSE pc' = "ar_sts" /\ result' = "running"
    /\ UNCHANGED <<role, hadMultiple>>
    /\ AssumeRoleFrame

(* assume_role(write_default_profile), a role has been set already *)
AssumeRoleSelected(wdp) ==
    /\ Start([name |-> "assume_role", k |-> 0, wdp |-> wdp])
    /\ role # <<>>
    /\ pc' = "ar_sts"
    /\ result' = "running"
    /\ UNCHANGED <<role, hadMultiple>>
    /\ AssumeRoleFrame

(* role is None and roles() raises ParseError: InvalidSaml *)
AssumeRoleInvalidSaml(wdp) ==
    /\ Start([name |-> "assume_role", k |-> 0, wdp |-> wdp])
    /\ role = <<>>
    /\ RolesRaises(assertion)
    /\ Raise("InvalidSaml")
    /\ UNCHANGED <<role, hadMultiple>>
    /\ AssumeRoleFrame

AssumeRoleMultipleGe1(wdp) ==
    /\ Start([name |-> "assume_role", k |-> 0, wdp |-> wdp])
    /\ role = <<>>
    /\ ~RolesRaises(assertion)
    /\ Len(Roles(assertion)) >= 1
    /\ Raise("MultipleRoles")
    /\ hadMultiple' = TRUE
    /\ UNCHANGED role
    /\ AssumeRoleFrame

(* role is None and len(roles()) > 1: MultipleRoles *)
AssumeRoleMultiple(wdp) ==
    /\ Start([name |-> "assume_role", k |-> 0, wdp |-> wdp])
    /\ role = <<>>
    /\ ~RolesRaises(assertion)
    /\ Len(Roles(assertion)) > 1
    /\ Raise("MultipleRoles")
    /\ hadMultiple' = TRUE
    /\ UNCHANGED role
    /\ AssumeRoleFrame

(* role is None and roles() is empty: roles()[0] raises IndexError, which   *)
(* the except clause does not catch                                         *)
AssumeRoleNoRole(wdp) ==
    /\ Start([name |-> "assume_role", k |-> 0, wdp |-> wdp])
    /\ role = <<>>
    /\ ~RolesRaises(assertion)
    /\ Len(Roles(assertion)) <= 1
    /\ IndexRaises(Roles(assertion), 0)
    /\ Raise("IndexError")
    /\ UNCHANGED <<role, hadMultiple>>
    /\ AssumeRoleFrame

(* role is None and there is one role: self.role = roles()[0] *)
AssumeRoleSingle(wdp) ==
    /\ Start([name |-> "assume_role", k |-> 0, wdp |-> wdp])
    /\ role = <<>>
    /\ ~RolesRaises(assertion)
    /\ Len(Roles(assertion)) <= 1
    /\ ~IndexRaises(Roles(assertion), 0)
    /\ role' = <<Index(Roles(assertion), 0)>>
    /\ pc' = "ar_sts"
    /\ result' = "running"
    /\ UNCHANGED hadMultiple
    /\ AssumeRoleFrame

(* session = sts.assume_role_with_saml(...); self.creds = session['Credentials'] *)
AssumeRoleWithSaml(pool) ==
    /\ pc = "ar_sts"
    /\ \E c \in pool :
        /\ sts' = [calls |-> sts.calls + 1,
                   request |-> StsRequest(role[1], assertion),
                   response |-> c]
        /\ creds' = c
    /\ pc' = IF op.wdp THEN "ar_write_default" ELSE "ar_write_role"
    /\ SessionUnchanged
    /\ UNCHANGED <<role, fs, clock, op, result, valid, call, snap, written,
                   lastCall, selected, hadMultiple, nops>>

(* the STS call raises (botocore ClientError) *)
AssumeRoleWithSamlFails ==
    /\ pc = "ar_sts"
    /\ sts' = [sts EXCEPT !.calls = @ + 1,
                          !.request = StsRequest(role[1], assertion)]
    /\ Raise("ClientError")
    /\ SessionUnchanged
    /\ UNCHANGED <<creds, role, fs, clock, op, valid, call, snap, written,
                   lastCall, selected, hadMultiple, nops>>

(* if write_default_profile: self._write() *)
WriteDefault ==
    /\ pc = "ar_write_default"
    /\ EnterAddProfile(profile, region, creds, "ar_write_role")
    /\ SessionUnchanged
    /\ UNCHANGED <<creds, role, sts, fs, clock, op, result, valid, snap,
                   written, lastCall, selected, hadMultiple, nops>>

(* self._write(profile_name=profile_name); _write falls back to            *)
(* self.profile when the name is empty                                      *)
WriteRole ==
    /\ pc = "ar_write_role"
    /\ LET pn == ProfileName(role[1], role_aliases)
       IN  EnterAddProfile(IF ~Truthy(pn) THEN profile ELSE pn,
                           region, creds, "done")
    /\ SessionUnchanged
    /\ UNCHANGED <<creds, role, sts, fs, clock, op, result, valid, snap,
                   written, lastCall, selected, hadMultiple, nops>>

----------------------------------------------------------------------------
(* Initial states *)

OtherSection ==
    [name |-> "other",
     opts |-> << <<"Region", "eu-west-1">>, <<"aws_access_key_id", "OTHERKEY">> >>]

DefaultsSection == [name |-> DefaultSect, opts |-> << <<"Output", "text">> >>]

StaleSection ==
    [name |-> "default",
     opts |-> << <<"aws_access_key_id", "STALE">>, <<"extra", "x">>,
                 <<"region", "eu-west-1">> >>]

InitTexts ==
    { <<>>,
      <<OtherSection, DefaultsSection>>,
      <<StaleSection, OtherSection>>,
      <<OtherSection, OtherSection>> }

InitModes == {420, 436}     \* 0o644, 0o664

InitFiles ==
    {NoFile} \cup {[exists |-> TRUE, mode |-> m, text |-> t] : m \in InitModes, t \in InitTexts}

SessionFiles ==
    {NoFile, [exists |-> TRUE, mode |-> 436, text |-> <<StaleSection, OtherSection>>]}

RoleLists == UNION {[1..n -> RolePool] : n \in 0..MaxRoles}

Assertions ==
    {[ok |-> TRUE, roles |-> l, encoded |-> "PHNhbWw+"] : l \in RoleLists}
    \cup {[ok |-> FALSE, roles |-> <<>>, encoded |-> "PHNhbWw+"]}

AliasLists == UNION {[1..n -> AliasPool] : n \in 0..MaxAliases}

GoodExpiration == Datetime(BufferSeconds + MaxClock, FALSE, "+00:00")

(* what STS may hand back: two different key sets *)
KeyCreds == {Creds("1", GoodExpiration), Creds("2", GoodExpiration)}

Expirations ==
    {Datetime(s, FALSE, "+00:00") : s \in BufferSeconds..(BufferSeconds + MaxClock + 1)}
    \cup {Datetime(BufferSeconds + MaxClock + 1, TRUE, "+00:00"),
          Datetime(BufferSeconds + MaxClock + 1, FALSE, "+01:00"),
          Datetime(BufferSeconds + MaxClock + 1, FALSE, ""),
          NoExpiration}

(* what STS may hand back: one key set, every shape of Expiration *)
ExpCreds == {Creds("1", e) : e \in Expirations}

WriterNames == {"default", "other", DefaultSect}
WriterRegions == {"us-east-1", "eu-west-1"}
WriterCreds == {Creds("1", GoodExpiration), InitCreds}

IndexArgs == (-1)..MaxRoles

(* Session.__init__ with the given assertion, aliases, profile and file *)
InitWith(a, al, p, f) ==
    /\ assertion = a
    /\ role_aliases = al
    /\ profile = p
    /\ region = "us-east-1"
    /\ creds = InitCreds
    /\ role = <<>>
    /\ sts = [calls |-> 0, request |-> NoRequest, response |-> InitCreds]
    /\ fs = f
    /\ clock = 0
    /\ pc = "idle"
    /\ op = NoOp
    /\ result = "ok"
    /\ valid = FALSE
    /\ call = NoFrame
    /\ snap = [fs |-> f, creds |-> InitCreds, role |-> <<>>, calls |-> 0,
               clock |-> 0]
    /\ written = <<>>
    /\ lastCall = NoCall
    /\ selected = -2
    /\ hadMultiple = FALSE
    /\ nops = 0

OneRole == [ok |-> TRUE, roles |-> <<RoleA>>, encoded |-> "PHNhbWw+"]
OneAlias == <<[role |-> "111:role/Admin", alias |-> "dev"]>>

TwoRoles == [ok |-> TRUE, roles |-> <<RoleA, RoleB>>, encoded |-> "PHNhbWw+"]

Init ==
    \E a \in Assertions, p \in {"default", DefaultSect}, f \in SessionFiles :
        InitWith(a, OneAlias, p, f)

InitAlias ==
    \E al \in AliasLists, f \in SessionFiles : InitWith(TwoRoles, al, "default", f)

InitWriter == \E f \in InitFiles : InitWith(OneRole, OneAlias, "default", f)

InitValid == InitWith(OneRole, OneAlias, "default", NoFile)

----------------------------------------------------------------------------
(* Specifications *)

Next ==
    \/ \E k \in IndexArgs : SetRole(k)
    \/ \E wdp \in BOOLEAN : AssumeRoleSelected(wdp)
    \/ \E wdp \in BOOLEAN : AssumeRoleInvalidSaml(wdp)
    \/ \E wdp \in BOOLEAN : AssumeRoleMultiple(wdp)
    \/ \E wdp \in BOOLEAN : AssumeRoleNoRole(wdp)
    \/ \E wdp \in BOOLEAN : AssumeRoleSingle(wdp)
    \/ AssumeRoleWithSaml(KeyCreds)
    \/ AssumeRoleWithSamlFails
    \/ WriteDefault
    \/ WriteRole
    \/ ApRead
    \/ ApSet
    \/ ApOpen
    \/ ApChmod
    \/ ApWrite

Spec == Init /\ [][Next]_vars

(* the profile writer, called directly and through assume_role *)
NextWriter ==
    \/ \E n \in WriterNames, r \in WriterRegions, c \in WriterCreds : AddProfile(n, r, c)
    \/ \E wdp \in BOOLEAN : AssumeRoleSelected(wdp)
    \/ \E wdp \in BOOLEAN : AssumeRoleSingle(wdp)
    \/ AssumeRoleWithSaml(KeyCreds)
    \/ WriteDefault
    \/ WriteRole
    \/ ApRead
    \/ ApSet
    \/ ApOpen
    \/ ApChmod
    \/ ApWrite

SpecWriter == InitWriter /\ [][NextWriter]_vars

(* the role's profile name, over every list of aliases *)
NextAlias ==
    \/ \E k \in IndexArgs : SetRole(k)
    \/ \E wdp \in BOOLEAN : AssumeRoleSelected(wdp)
    \/ \E wdp \in BOOLEAN : AssumeRoleMultiple(wdp)
    \/ AssumeRoleWithSaml(KeyCreds)
    \/ WriteDefault
    \/ WriteRole
    \/ ApRead
    \/ ApSet
    \/ ApOpen
    \/ ApChmod
    \/ ApWrite

SpecAlias == InitAlias /\ [][NextAlias]_vars

(* is_valid against every shape of Expiration, as time passes *)
NextValid ==
    \/ \E wdp \in BOOLEAN : AssumeRoleSelected(wdp)
    \/ \E wdp \in BOOLEAN : AssumeRoleSingle(wdp)
    \/ AssumeRoleWithSaml(ExpCreds)
    \/ AssumeRoleWithSamlFails
    \/ WriteDefault
    \/ WriteRole
    \/ ApRead
    \/ ApSet
    \/ ApOpen
    \/ ApChmod
    \/ ApWrite
    \/ IsValidCall
    \/ Tick

SpecValid == InitValid /\ [][NextValid]_vars

----------------------------------------------------------------------------
(* What the properties below read off a state *)

Range(q) == {q[i] : i \in 1..Len(q)}

SectionNames(f) == {f.text[i].name : i \in 1..Len(f.text)}

(* the keys (as the parser names them) and values of section n of file f *)
KeyVals(f, n) ==
    UNION {{<<OptionXForm(o[1]), o[2]>> : o \in Range(f.text[i].opts)} :
             i \in {j \in 1..Len(f.text) : f.text[j].name = n}}

SameSection(f, g, n) ==
    /\ (n \in SectionNames(f)) = (n \in SectionNames(g))
    /\ KeyVals(f, n) = KeyVals(g, n)

InAddProfile == pc \in {"ap_read", "ap_set", "ap_open", "ap_chmod", "ap_write"}

AssumeRoleOp == op.name = "assume_role"

NumRoles == Len(assertion.roles)

PastSelection == {"ok", "ClientError", "ConfigError", "ValueError"}

WellFormed(e) == e.kind = "datetime" /\ ~e.micro /\ e.tz = "+00:00"

(* the role ARN without a leading 'arn:aws:iam::' *)
Stripped(r) ==
    IF r.role # <<>> /\ Head(r.role) = ArnPrefix
    THEN Join(Tail(r.role)) ELSE Join(r.role)

Matching(r, aliases) ==
    LET M(a) == a.role = Stripped(r) IN SelectSeq(aliases, M)

HoldsCreds(f, n, c) ==
    /\ n \in SectionNames(f)
    /\ {<<"aws_access_key_id", c.AccessKeyId>>,
        <<"aws_secret_access_key", c.SecretAccessKey>>,
        <<"aws_security_token", c.SessionToken>>,
        <<"aws_session_token", c.SessionToken>>} \subseteq KeyVals(f, n)

----------------------------------------------------------------------------
(* C1: is_valid returns True exactly when the Expiration is a well-formed   *)
(* timestamp and now + 10 minutes is strictly earlier than it; for a        *)
(* malformed or None Expiration it returns False, and it never raises.      *)
C1_IsValidIff ==
    op.name = "is_valid" =>
        /\ result = "ok"
        /\ valid = (/\ WellFormed(creds.Expiration)
                    /\ snap.clock + BufferSeconds < creds.Expiration.secs)

C1_Witness ==
    /\ op.name = "is_valid"
    /\ valid
    /\ snap.clock > 0

C3_Idempotent ==
    (call.done /\ call.args = call.prev.args /\ call.fs0 = call.prev.after) =>
        fs = call.fs0

C3_Witness ==
    /\ call.done
    /\ call.args = call.prev.args
    /\ call.fs0 = call.prev.after
    /\ Len(fs.text) > 1
    /\ op.name = "add_profile"

(* C4: set_role(k) sets the role to the k-th role of the assertion, counted *)
(* from zero, and a following assume_role calls STS with that role and      *)
(* does not raise MultipleRoles.                                            *)
C4_SetRoleIndex ==
    /\ (op.name = "set_role" /\ op.k \in 0..(NumRoles - 1) /\ assertion.ok) =>
         (result = "ok" /\ role = <<assertion.roles[op.k + 1]>>)
    /\ (AssumeRoleOp /\ selected \in 0..(NumRoles - 1)) =>
         /\ result \in PastSelection \cup {"running"}
         /\ role = <<assertion.roles[selected + 1]>>
         /\ pc # "ar_sts" =>
              /\ sts.calls = snap.calls + 1
              /\ sts.request.RoleArn = Join(assertion.roles[selected + 1].role)
              /\ sts.request.PrincipalArn = assertion.roles[selected + 1].principle

C4_Witness ==
    /\ AssumeRoleOp
    /\ result = "ok"
    /\ selected = 1
    /\ NumRoles = 2
    /\ assertion.roles[1] # assertion.roles[2]

(* C5: with exactly one role in the assertion and no role selected,         *)
(* assume_role takes that role, raises neither MultipleRoles nor            *)
(* InvalidSaml, and calls STS with it.                                      *)
C5_SingleRoleAuto ==
    (AssumeRoleOp /\ snap.role = <<>> /\ assertion.ok /\ NumRoles = 1) =>
        /\ result \in PastSelection \cup {"running"}
        /\ role = <<assertion.roles[1]>>
        /\ pc # "ar_sts" =>
             /\ sts.calls = snap.calls + 1
             /\ sts.request.RoleArn = Join(assertion.roles[1].role)
             /\ sts.request.PrincipalArn = assertion.roles[1].principle

C5_Witness ==
    /\ AssumeRoleOp
    /\ snap.role = <<>>
    /\ NumRoles = 1
    /\ selected = -2
    /\ result = "ok"

(* C6: with no role selected and no role in the assertion (the list is      *)
(* empty or cannot be extracted) assume_role fails with InvalidSaml and     *)
(* nothing else; no STS call is made and no profile is written.             *)
C6_NoRoleInvalidSaml ==
    (AssumeRoleOp /\ snap.role = <<>> /\ (~assertion.ok \/ NumRoles = 0)) =>
        /\ result = "InvalidSaml"
        /\ sts.calls = snap.calls
        /\ fs = snap.fs

(* C7: with several roles and none selected assume_role raises              *)
(* MultipleRoles and changes nothing; set_role(k) and another assume_role   *)
(* on the same session then get past role selection.                        *)
C7_MultipleRecoverable ==
    /\ (AssumeRoleOp /\ snap.role = <<>> /\ assertion.ok /\ NumRoles > 1) =>
         /\ result = "MultipleRoles"
         /\ hadMultiple
         /\ role = <<>>
         /\ creds = snap.creds
         /\ fs = snap.fs
         /\ sts.calls = snap.calls
    /\ (AssumeRoleOp /\ result = "MultipleRoles") =>
         (snap.role = <<>> /\ NumRoles > 1)
    /\ (hadMultiple /\ op.name = "set_role" /\ op.k \in 0..(NumRoles - 1)) =>
         (result = "ok" /\ role = <<assertion.roles[op.k + 1]>>)
    /\ (hadMultiple /\ AssumeRoleOp /\ snap.role # <<>>) =>
         /\ result \in PastSelection \cup {"running"}
         /\ (result = "ConfigError" => ReadRaises(fs.text))
         /\ (result = "ValueError" => call.name = DefaultSect)

C7_Witness ==
    /\ hadMultiple
    /\ AssumeRoleOp
    /\ snap.role # <<>>
    /\ result = "ok"
    /\ creds # snap.creds

(* C8 as stated: the permissions are tightened only after the whole file    *)
(* has been rewritten.                                                      *)
C8_ChmodAfterRewrite ==
    pc = "ap_chmod" => fs.text = WriteConfig(call.config)

(* C8 amended: parse, create the section, set the fields, open and          *)
(* truncate the file, tighten the permissions to 0600, and only then write  *)
(* the content; when the write completes the mode is 0600.                  *)
C8_ChmodBeforeRewrite ==
    /\ pc \in {"ap_read", "ap_set", "ap_open"} => fs = call.fs0
    /\ pc \in {"ap_open", "ap_chmod", "ap_write"} =>
         /\ call.name \in {call.config.sections[i].name : i \in 1..Len(call.config.sections)}
         /\ \A i \in 1..Len(call.config.sections) :
              call.config.sections[i].name = call.name =>
                  Range(call.items) \subseteq Range(call.config.sections[i].opts)
    /\ pc = "ap_chmod" => (fs.exists /\ fs.text = <<>>)
    /\ pc = "ap_write" => (fs.exists /\ fs.text = <<>> /\ fs.mode = OwnerRW)
    /\ call.done =>
         /\ fs.exists
         /\ fs.mode = OwnerRW
         /\ fs.text = WriteConfig(call.config)
         /\ fs.text # <<>>

C8_Witness ==
    /\ call.done
    /\ call.fs0.exists
    /\ call.fs0.mode > OwnerRW
    /\ call.fs0.text # <<>>
    /\ fs.mode = OwnerRW

(* C9: an assume_role that gets past role selection makes exactly one STS   *)
(* call, with the role's ARN, its principal ARN and the assertion; the      *)
(* call comes before every profile write, and when it fails the session's   *)
(* credentials and the file are unchanged.                                  *)
C9_OneStsCallFirst ==
    AssumeRoleOp =>
        /\ (result \in PastSelection \/ (result = "running" /\ pc # "ar_sts")) =>
             /\ sts.calls = snap.calls + 1
             /\ sts.request = [RoleArn |-> Join(role[1].role),
                               PrincipalArn |-> role[1].principle,
                               SAMLAssertion |-> assertion.encoded]
        /\ (pc = "ar_sts" \/ result \notin PastSelection \cup {"running"}) =>
             (sts.calls = snap.calls /\ fs = snap.fs /\ written = <<>>)
        /\ (InAddProfile \/ fs # snap.fs \/ written # <<>>) =>
             sts.calls = snap.calls + 1
        /\ result = "ClientError" =>
             (creds = snap.creds /\ fs = snap.fs /\ written = <<>>)

C9_Witness ==
    /\ AssumeRoleOp
    /\ result = "ClientError"
    /\ snap.fs.exists
    /\ snap.creds # InitCreds

(* C10 as stated: after a successful assume_role the role's profile is named *)
(* by the last matching alias, or by the stripped role name when no         *)
(* non-empty alias matches.                                                 *)
C10_LastAliasUnlessAllEmpty ==
    (AssumeRoleOp /\ result = "ok") =>
        LET m == Matching(role[1], role_aliases)
            nonEmpty == \E i \in 1..Len(m) : m[i].alias # ""
            name == IF nonEmpty THEN m[Len(m)].alias ELSE Stripped(role[1])
        IN  /\ creds = sts.response
            /\ written = (IF op.wdp THEN <<profile>> ELSE <<>>) \o <<name>>
            /\ \A n \in Range(written) : HoldsCreds(fs, n, creds)

(* C10 amended: the role's profile is named by the last matching alias, or  *)
(* by the stripped role name when no alias matches or the last matching     *)
(* alias is empty; the rest as stated.                                      *)
C10_LastAliasUnlessEmpty ==
    (AssumeRoleOp /\ result = "ok") =>
        LET m == Matching(role[1], role_aliases)
            name == IF m = <<>> \/ m[Len(m)].alias = ""
                    THEN Stripped(role[1]) ELSE m[Len(m)].alias
        IN  /\ creds = sts.response
            /\ sts.calls = snap.calls + 1
            /\ written = (IF op.wdp THEN <<profile>> ELSE <<>>) \o <<name>>
            /\ \A n \in Range(written) : HoldsCreds(fs, n, creds)

C10_Witness ==
    /\ AssumeRoleOp
    /\ result = "ok"
    /\ op.wdp
    /\ Len(Matching(role[1], role_aliases)) = 2
    /\ written = <<"default", "dev">>
    /\ role_aliases[1].alias = ""

====
